---- MODULE Spec2Model ----
(***************************************************************************)
(* Composite pattern (composite.py): a Folder holds an ordered list of     *)
(* children, each a File (leaf) or another Folder.  File.operation and     *)
(* Folder.operation are the polymorphic operation; Folder.add_file,        *)
(* Folder.add_folder, Folder.remove_file and Folder.remove_folder are the  *)
(* operations offered to change a Folder's list.                           *)
(*                                                                         *)
(* Objects are identified by the members of FolderIds and FileIds (Python  *)
(* object identity).  Strings are TLA+ strings, \o is Python's +.          *)
(***************************************************************************)
EXTENDS Integers, Sequences, FiniteSets, TLC

\* ------------------------------------------------------------------ bounds
\* The Folder and File objects the client has constructed.
FolderIds == {"root", "sub"}
FileIds == {"f1", "f2"}
NodeIds == FolderIds \cup FileIds

\* Arguments the client passes to File(name, content).
FileArgs == {<<"a.txt", "hi">>, <<"b.txt", "x">>}

\* Total number of add_file / add_folder calls in a run.
MaxAdds == 3

\* Depth of nested operation() calls at which the interpreter raises
\* RecursionError (sys.getrecursionlimit(), scaled down).
RecursionLimit == 5

\* ------------------------------------------------------------------- state
VARIABLES
    files,      \* File id -> [name, content]            (File.__init__)
    children,   \* Folder id -> Folder._list_children    (sequence of node ids)
    last,       \* the most recent call and how it ended
    before      \* value of children when the most recent call started

vars == <<files, children, last, before>>

\* The other files of the repository are programs of their own; each keeps its
\* state in one record.
VARIABLES
    singleton,
    flyweight,
    facade,
    bridge,
    builder,
    factory

\* The fields of the records:
\*   singleton (singleton.py): instances, made, calls
\*   flyweight (flyweight.py): pool, objects, refs, after_clear, last
\*   facade (facade.py): calls, stdout, last
\*   bridge (bridge.py): volume_percent, channel, enabled, power, switch, last
\*   builder (builder.py): car, handed_out, last
\*   factory (abstract_factory.py): loaded, namespace, exc, objects, last

\* What a program leaves alone: the state of all the other files.
not_composite == <<singleton, flyweight, facade, bridge, builder, factory>>
not_singleton == <<vars, flyweight, facade, bridge, builder, factory>>
not_flyweight == <<vars, singleton, facade, bridge, builder, factory>>
not_facade == <<vars, singleton, flyweight, bridge, builder, factory>>
not_bridge == <<vars, singleton, flyweight, facade, builder, factory>>
not_builder == <<vars, singleton, flyweight, facade, bridge, factory>>
not_factory == <<vars, singleton, flyweight, facade, bridge, builder>>

\* What a call hands back: a returned value or a raised exception.
NoneValue == "None"
Return(v) == [exc |-> "", ret |-> v]
Raise(e) == [exc |-> e, ret |-> ""]

\* The record of a call: what was called on which object with which argument,
\* how it ended, and whether the call before it was the same call.
Call(op, node, arg, outcome) ==
    [op |-> op, node |-> node, arg |-> arg,
     exc |-> outcome.exc, ret |-> outcome.ret,
     again |-> (last.op = op /\ last.node = node /\ last.arg = arg)]

\* ------------------------------------------------------------ list helpers
Range(seq) == {seq[i] : i \in 1..Len(seq)}

\* seq without the first element that is x (seq itself when x is not in it).
RECURSIVE RemoveFirst(_, _)
RemoveFirst(seq, x) ==
    IF seq = << >> THEN << >>
    ELSE IF Head(seq) = x THEN Tail(seq)
    ELSE <<Head(seq)>> \o RemoveFirst(Tail(seq), x)

\* -------------------------------------------------------------- operations
\* File.__init__
File_init(name, content) == [name |-> name, content |-> content]

\* Folder.__init__ : self._list_children = []
Folder_init == << >>

\* Mutant of File.operation: return self.name
File_operation_name(self) == self.name

\* File.operation
File_operation(self) == "Leaf"

\* Mutant of the join: ''.join(results), the separator lost.
RECURSIVE Join_nosep(_, _)
Join_nosep(sep, results) ==
    IF results = << >> THEN ""
    ELSE results[1] \o Join_nosep(sep, Tail(results))

\* '+'.join(results)
RECURSIVE Join(_, _)
Join(sep, results) ==
    IF results = << >> THEN ""
    ELSE IF Len(results) = 1 THEN results[1]
    ELSE results[1] \o sep \o Join(sep, Tail(results))

\* child.operation(), dispatched on the child's class; every call is one
\* more interpreter frame.
RECURSIVE Operation(_, _, _, _)

\* Mutant of the loop: results.insert(0, child.operation()).
RECURSIVE CollectResults_prepend(_, _, _, _, _, _)
CollectResults_prepend(fl, ch, kids, i, results, depth) ==
    IF i > Len(kids) THEN Return(results)
    ELSE LET r == Operation(fl, ch, kids[i], depth)
         IN  IF r.exc # "" THEN r
             ELSE CollectResults_prepend(fl, ch, kids, i + 1,
                                         <<r.ret>> \o results, depth)

\* Mutant of the loop: a child's RecursionError is caught and the child skipped.
RECURSIVE CollectResults_swallow(_, _, _, _, _, _)
CollectResults_swallow(fl, ch, kids, i, results, depth) ==
    IF i > Len(kids) THEN Return(results)
    ELSE LET r == Operation(fl, ch, kids[i], depth)
         IN  CollectResults_swallow(fl, ch, kids, i + 1,
                 IF r.exc # "" THEN results ELSE Append(results, r.ret), depth)

\* The loop of Folder.operation from its i-th child on: results.append(
\* child.operation()); an exception raised by a child leaves the loop.
RECURSIVE CollectResults(_, _, _, _, _, _)
CollectResults(fl, ch, kids, i, results, depth) ==
    IF i > Len(kids) THEN Return(results)
    ELSE LET r == Operation(fl, ch, kids[i], depth)
         IN  IF r.exc # "" THEN r
             ELSE CollectResults(fl, ch, kids, i + 1, Append(results, r.ret), depth)

\* Mutant of Folder.operation: the closing parenthesis of the format lost.
Folder_operation_unclosed(fl, ch, self, depth) ==
    LET results == CollectResults(fl, ch, ch[self], 1, << >>, depth + 1)
    IN  IF results.exc # "" THEN results
        ELSE Return("Branch(" \o Join("+", results.ret))

\* Folder.operation
Folder_operation(fl, ch, self, depth) ==
    LET results == CollectResults(fl, ch, ch[self], 1, << >>, depth + 1)
    IN  IF results.exc # "" THEN results
        ELSE Return("Branch(" \o Join("+", results.ret) \o ")")

Operation(fl, ch, node, depth) ==
    IF depth > RecursionLimit THEN Raise("RecursionError")
    ELSE IF node \in FileIds THEN Return(File_operation(fl[node]))
    ELSE Folder_operation(fl, ch, node, depth)

\* Folder.add_file : self._list_children.append(file)
Folder_add_file(list_children, file) == Append(list_children, file)

\* Mutant of Folder.add_folder: a folder already in the list is not added again.
Folder_add_folder_checked(list_children, folder) ==
    IF folder \in Range(list_children) THEN list_children
    ELSE Append(list_children, folder)

\* Folder.add_folder : self._list_children.append(folder)
Folder_add_folder(list_children, folder) == Append(list_children, folder)

\* Mutant of Folder.remove_file: self._list_children.remove(file), which raises
\* ValueError when file is not in the list.
Folder_remove_file_raises(list_children, file) ==
    IF file \in Range(list_children) THEN Return(RemoveFirst(list_children, file))
    ELSE Raise("ValueError")

\* Folder.remove_file : pass
Folder_remove_file(list_children, file) == Return(list_children)

\* Folder.remove_folder : pass
Folder_remove_folder(list_children, folder) == Return(list_children)

\* ----------------------------------------------------------------- actions
RECURSIVE SumLen(_, _)
SumLen(ch, S) ==
    IF S = {} THEN 0
    ELSE LET x == CHOOSE y \in S : TRUE
         IN  Len(ch[x]) + SumLen(ch, S \ {x})

TotalChildren == SumLen(children, FolderIds)

\* Mutant of add_file: the Folders share one list (a class attribute
\* _list_children = []), so an add shows in every Folder.
AddFile_shared(self, file) ==
    /\ TotalChildren < MaxAdds
    /\ children' = [f \in FolderIds |-> Folder_add_file(children[f], file)]
    /\ last' = Call("add_file", self, file, Return(NoneValue))
    /\ before' = children
    /\ UNCHANGED files
    /\ UNCHANGED not_composite

AddFile(self, file) ==
    /\ TotalChildren < MaxAdds
    /\ children' = [children EXCEPT ![self] = Folder_add_file(@, file)]
    /\ last' = Call("add_file", self, file, Return(NoneValue))
    /\ before' = children
    /\ UNCHANGED files
    /\ UNCHANGED not_composite

\* Mutant of add_folder: folder._list_children.append(self).
AddFolder_swapped(self, folder) ==
    /\ TotalChildren < MaxAdds
    /\ children' = [children EXCEPT ![folder] = Folder_add_folder(@, self)]
    /\ last' = Call("add_folder", self, folder, Return(NoneValue))
    /\ before' = children
    /\ UNCHANGED files
    /\ UNCHANGED not_composite

AddFolder(self, folder) ==
    /\ TotalChildren < MaxAdds
    /\ children' = [children EXCEPT ![self] = Folder_add_folder(@, folder)]
    /\ last' = Call("add_folder", self, folder, Return(NoneValue))
    /\ before' = children
    /\ UNCHANGED files
    /\ UNCHANGED not_composite

RemoveFile(self, file) ==
    LET r == Folder_remove_file(children[self], file)
    IN  /\ children' = IF r.exc = "" THEN [children EXCEPT ![self] = r.ret] ELSE children
        /\ last' = Call("remove_file", self, file,
                        IF r.exc = "" THEN Return(NoneValue) ELSE r)
        /\ before' = children
        /\ UNCHANGED files
        /\ UNCHANGED not_composite

RemoveFolder(self, folder) ==
    LET r == Folder_remove_folder(children[self], folder)
    IN  /\ children' = IF r.exc = "" THEN [children EXCEPT ![self] = r.ret] ELSE children
        /\ last' = Call("remove_folder", self, folder,
                        IF r.exc = "" THEN Return(NoneValue) ELSE r)
        /\ before' = children
        /\ UNCHANGED files
        /\ UNCHANGED not_composite

\* Mutant of operation: a Folder empties its list while it walks it
\* (self._list_children.pop(0).operation()).
Evaluate_destructive(node) ==
    /\ last' = Call("operation", node, "", Operation(files, children, node, 1))
    /\ before' = children
    /\ children' = IF node \in FolderIds THEN [children EXCEPT ![node] = << >>]
                   ELSE children
    /\ UNCHANGED files
    /\ UNCHANGED not_composite

\* node.operation() called by the client, on a File or on a Folder.
Evaluate(node) ==
    /\ last' = Call("operation", node, "", Operation(files, children, node, 1))
    /\ before' = children
    /\ UNCHANGED <<files, children>>
    /\ UNCHANGED not_composite

\* ------------------------------------------------- vocabulary of the claims
\* The direct children of a node; a File has none.
Kids(ch, n) == IF n \in FolderIds THEN Range(ch[n]) ELSE {}

RECURSIVE Closure(_, _)
Closure(ch, S) ==
    LET T == S \cup UNION {Kids(ch, n) : n \in S}
    IN  IF T = S THEN S ELSE Closure(ch, T)

\* The direct and transitive children of a node.
Descendants(ch, n) == Closure(ch, Kids(ch, n))

\* No Folder is, directly or transitively, its own child.
Acyclic(ch) == \A f \in FolderIds : f \notin Descendants(ch, f)

\* A cycle lies at or below node n.
CycleBelow(ch, n) ==
    \E f \in FolderIds : (f = n \/ f \in Descendants(ch, n)) /\ f \in Descendants(ch, f)

\* What the client gets from node.operation() in the current state.
Evaluated(node) == Operation(files, children, node, 1)

\* rs[1] + "+" + rs[2] + ... + "+" + rs[n], written out from the left.
RECURSIVE PlusList(_, _)
PlusList(rs, n) ==
    IF n = 0 THEN ""
    ELSE IF n = 1 THEN rs[1]
    ELSE PlusList(rs, n - 1) \o "+" \o rs[n]

IsRemove(call) == call.op \in {"remove_file", "remove_folder"}
IsAdd(call) == call.op \in {"add_file", "add_folder"}

\* ------------------------------------------------------------------ claims

\* C1: a Folder's operation() returns "Branch(" followed by its children's own
\* operation() results, joined with "+" in the order of the child list, followed
\* by ")"; a root holding a File and then a Folder holding one File gives
\* "Branch(Leaf+Branch(Leaf))".
C1_OperationJoinsChildrenInOrder ==
    (last.op = "operation" /\ last.node \in FolderIds /\ last.exc = "") =>
        LET kids == children[last.node]
            rs == [i \in 1..Len(kids) |-> Evaluated(kids[i])]
        IN  /\ \A i \in 1..Len(kids) : rs[i].exc = ""
            /\ last.ret = "Branch("
                            \o PlusList([i \in 1..Len(kids) |-> rs[i].ret], Len(kids))
                            \o ")"
            /\ (/\ Len(kids) = 2
                /\ kids[1] \in FileIds
                /\ kids[2] \in FolderIds \ {last.node}
                /\ Len(children[kids[2]]) = 1
                /\ children[kids[2]][1] \in FileIds)
               => last.ret = "Branch(Leaf+Branch(Leaf))"

\* C1 witness: root.operation() has returned for root = [File, sub], sub = [File].
C1_Witness ==
    /\ last.op = "operation" /\ last.node = "root" /\ last.exc = ""
    /\ children["root"] = <<"f1", "sub">>
    /\ children["sub"] = <<"f2">>
    /\ last.ret = "Branch(Leaf+Branch(Leaf))"

\* C2 (the claim as stated): when remove(c) on a Folder directly follows add(c)
\* on the same Folder, the Folder evaluates to what it evaluated to before
\* the add.
C2_RemoveAfterAddRestoresEvaluate ==
    [][(/\ IsAdd(last) /\ IsRemove(last')
        /\ last'.node = last.node /\ last'.arg = last.arg)
       => Operation(files', children', last.node, 1)
            = Operation(files, before, last.node, 1)]_vars

\* C3 (the claim as stated): a remove call for a child that is in the Folder's
\* list takes out exactly the first occurrence of that child and keeps every
\* other entry, of this Folder and of the others, in place.
C3_RemoveTakesFirstOccurrence ==
    [][(IsRemove(last') /\ last'.arg \in Range(children[last'.node]))
       => children' = [children EXCEPT
                          ![last'.node] = RemoveFirst(@, last'.arg)]]_vars

\* C4 (the claim as stated): in every reachable state no Folder is, directly
\* or transitively, its own child.
C4_NeverACycle == Acyclic(children)

\* C4 (amended): the Folders start without a cycle, and a call turns a
\* structure without a cycle into one with a cycle exactly when it is
\* add_folder(folder) on a Folder that is folder itself or one of folder's
\* direct or transitive children; no other add, and no remove, does.
C4_OnlyLoopingAddMakesACycle ==
    [][Acyclic(children) =>
         (Acyclic(children') <=>
            ~(/\ last'.op = "add_folder"
              /\ children' # children
              /\ \/ last'.arg = last'.node
                 \/ last'.node \in Descendants(children, last'.arg)))]_vars

\* C4 witness: an add_folder of another, non-empty Folder that made no cycle.
C4_Witness ==
    /\ last.op = "add_folder" /\ last.node # last.arg
    /\ children[last.arg] # << >>
    /\ Len(children[last.node]) > 1
    /\ Acyclic(children)

\* The Folder self rebuilt from a fresh Folder by adding a and then b.
BuiltWith(self, a, b) ==
    LET add(list, c) == IF c \in FileIds THEN Folder_add_file(list, c)
                        ELSE Folder_add_folder(list, c)
    IN  [children EXCEPT ![self] = add(add(Folder_init, a), b)]

\* C5 (the claim as stated): a Folder built by adding A then B and the same
\* Folder built by adding B then A evaluate to different strings.
C5_SwapChangesResult ==
    \A self \in FolderIds, a, b \in NodeIds :
        LET ab == Operation(files, BuiltWith(self, a, b), self, 1)
            ba == Operation(files, BuiltWith(self, b, a), self, 1)
        IN  (a # b /\ children[self] = <<a, b>> /\ ab.exc = "" /\ ba.exc = "")
            => ab.ret # ba.ret

\* C5 (amended): each of the two Folders lists its children's results in its
\* own insertion order, and the two strings differ exactly when A's and B's
\* own results differ (two Files, or two Folders that evaluate alike, give the
\* same string in either order).
C5_SwapChangesResultIffChildrenDiffer ==
    \A self \in FolderIds, a, b \in NodeIds :
        LET ab == Operation(files, BuiltWith(self, a, b), self, 1)
            ba == Operation(files, BuiltWith(self, b, a), self, 1)
            ra == Evaluated(a)
            rb == Evaluated(b)
        IN  (a # b /\ children[self] = <<a, b>> /\ ab.exc = "" /\ ba.exc = "")
            => /\ ra.exc = "" /\ rb.exc = ""
               /\ ab.ret = "Branch(" \o ra.ret \o "+" \o rb.ret \o ")"
               /\ ba.ret = "Branch(" \o rb.ret \o "+" \o ra.ret \o ")"
               /\ (ab.ret # ba.ret) <=> (ra.ret # rb.ret)

\* C5 witness: root = [File, sub] has been evaluated; the other order differs.
C5_Witness ==
    /\ last.op = "operation" /\ last.node = "root" /\ last.exc = ""
    /\ children["root"] = <<"f1", "sub">>
    /\ children["sub"] = <<"f2">>
    /\ last.ret # Operation(files, BuiltWith("root", "sub", "f1"), "root", 1).ret

\* C6: operation() called twice in a row on the same node, nothing called in
\* between, ends the second time as it ended the first time.
C6_EvaluateTwiceSameResult ==
    [][(/\ last.op = "operation" /\ last'.op = "operation"
        /\ last'.node = last.node /\ last'.again)
       => (last'.exc = last.exc /\ last'.ret = last.ret)]_vars

\* C6 witness: root.operation() has just been called a second time in a row on
\* a nested tree.
C6_Witness ==
    /\ last.op = "operation" /\ last.again /\ last.node = "root" /\ last.exc = ""
    /\ children["root"] = <<"f1", "sub">>
    /\ children["sub"] = <<"f2">>

\* C7: operation() on a Folder whose list is empty returns exactly "Branch()".
C7_EmptyFolderIsBranch ==
    (last.op = "operation" /\ last.node \in FolderIds
        /\ children[last.node] = << >>)
    => (last.exc = "" /\ last.ret = "Branch()")

\* C7 witness: operation() has been called on a Folder with no children.
C7_Witness ==
    /\ last.op = "operation" /\ last.node \in FolderIds
    /\ children[last.node] = << >>
    /\ last.ret = "Branch()"

\* C8: operation() on a File returns "Leaf", whatever the File's name and
\* content, and changes neither the Files nor any Folder's list.
C8_FileIsLeaf ==
    [][(last'.op = "operation" /\ last'.node \in FileIds)
       => (/\ last'.exc = "" /\ last'.ret = "Leaf"
           /\ files' = files /\ children' = children)]_vars

\* C8 witness: operation() has been called on the File ("b.txt", "x") while
\* the other File has another name and content.
C8_Witness ==
    /\ last.op = "operation" /\ last.node \in FileIds
    /\ files[last.node] = File_init("b.txt", "x")
    /\ \E o \in FileIds : files[o] = File_init("a.txt", "hi")
    /\ last.ret = "Leaf"

\* C9: a remove call for a child that is not in the Folder's list raises
\* nothing and leaves every list, and so what the Folder evaluates to, as it
\* was.
C9_RemoveAbsentIsNoOp ==
    [][(IsRemove(last') /\ last'.arg \notin Range(children[last'.node]))
       => (/\ last'.exc = "" /\ last'.ret = NoneValue
           /\ children' = children
           /\ Operation(files', children', last'.node, 1)
                = Operation(files, children, last'.node, 1))]_vars

\* C9 witness: a remove call on a non-empty Folder for a child it does not hold.
C9_Witness ==
    /\ IsRemove(last)
    /\ children[last.node] # << >>
    /\ last.arg \notin Range(children[last.node])
    /\ last.exc = ""

C11_AddAppends ==
    IsAdd(last) =>
        /\ last.exc = "" /\ last.ret = NoneValue
        /\ Len(children[last.node]) = Len(before[last.node]) + 1
        /\ \A i \in 1..Len(before[last.node]) :
               children[last.node][i] = before[last.node][i]
        /\ children[last.node][Len(children[last.node])] = last.arg
        /\ \A f \in FolderIds \ {last.node} : children[f] = before[f]

\* C11 witness: root.add_folder(root) has been accepted a second time: a
\* duplicate and a cycle.
C11_Witness ==
    /\ last.op = "add_folder" /\ last.node = "root" /\ last.arg = "root"
    /\ before["root"] = <<"f1", "root">>
    /\ children["root"] = <<"f1", "root", "root">>

\* C21: a Folder's child list is changed only by an add or a remove called
\* on that same Folder: operation() on any node leaves every Folder's list
\* as it was, and an add on one Folder leaves the lists of all other Folders
\* as they were.
C21_ChildrenChangeOnlyByAddRemoveOnSelf ==
    \A f \in FolderIds :
        children[f] # before[f] =>
            /\ IsAdd(last) \/ IsRemove(last)
            /\ last.node = f

\* C21 witness: sub.add_file(f2) has changed the list of sub, while root,
\* which holds a File and sub, kept its list.
C21_Witness ==
    /\ last.op = "add_file" /\ last.node = "sub" /\ last.arg = "f2"
    /\ before["sub"] = << >> /\ children["sub"] = <<"f2">>
    /\ before["root"] = <<"f1", "sub">> /\ children["root"] = <<"f1", "sub">>

\* ======================================================================
\* Singleton (singleton.py): SingletonMeta keeps one instance per class in
\* _instances and hands it out on every call of the class.
\* ======================================================================

\* The classes whose metaclass is SingletonMeta.
SingletonClasses == {"Singleton"}

\* Positional arguments the client passes to Singleton(...).
ArgLists == {<< >>, <<1>>, <<1, 2>>}

\* Number of Singleton(...) calls in a run.
MaxCalls == 4

\* The module after import: _instances = {}
\* (made counts the objects type.__call__ has constructed, per class; calls
\* lists the Singleton(...) calls so far, with arguments and outcome.)
Singleton_start ==
    [instances |-> [c \in {} |-> 0],
     made |-> [c \in SingletonClasses |-> 0],
     calls |-> << >>]

\* super().__call__(*args, **kwargs), that is type.__call__: Singleton defines
\* neither __new__ nor __init__, so object.__new__ refuses arguments.  The
\* new object is numbered by the count of objects of the class.
Type_call(cls, args, count) ==
    IF args # << >> THEN Raise("TypeError")
    ELSE Return(count + 1)

\* Mutant of SingletonMeta.__call__: the instance is built on every call.
SingletonMeta_call_nocache(cls, args, inst, count) ==
    LET r == Type_call(cls, args, count[cls])
    IN  IF r.exc # "" THEN [exc |-> r.exc, ret |-> 0, inst |-> inst, count |-> count]
        ELSE [exc |-> "", ret |-> r.ret,
              inst |-> [c \in DOMAIN inst \cup {cls} |->
                            IF c = cls THEN r.ret ELSE inst[c]],
              count |-> [count EXCEPT ![cls] = @ + 1]]

\* SingletonMeta.__call__: the outcome of the call, and _instances and the
\* object count after it.
SingletonMeta_call(cls, args, inst, count) ==
    IF cls \notin DOMAIN inst
    THEN LET r == Type_call(cls, args, count[cls])
         IN  IF r.exc # ""
             THEN [exc |-> r.exc, ret |-> 0, inst |-> inst, count |-> count]
             ELSE [exc |-> "", ret |-> r.ret,
                   inst |-> [c \in DOMAIN inst \cup {cls} |->
                                 IF c = cls THEN r.ret ELSE inst[c]],
                   count |-> [count EXCEPT ![cls] = @ + 1]]
    ELSE [exc |-> "", ret |-> inst[cls], inst |-> inst, count |-> count]

\* Singleton(*args) called by the client.
SingletonCall(cls, args) ==
    /\ Len(singleton.calls) < MaxCalls
    /\ LET r == SingletonMeta_call(cls, args, singleton.instances, singleton.made)
       IN  singleton' = [instances |-> r.inst,
                         made |-> r.count,
                         calls |-> Append(singleton.calls,
                                          [cls |-> cls, args |-> args,
                                           exc |-> r.exc, ret |-> r.ret])]
    /\ UNCHANGED not_singleton

\* C12 (the claim as stated): every call Singleton(...) returned, and returned
\* the instance created by the first call; the constructor ran at most once
\* per class.
C12_EveryCallReturnsFirstInstance ==
    /\ \A c \in SingletonClasses : singleton.made[c] <= 1
    /\ \A i \in 1..Len(singleton.calls) :
           /\ singleton.calls[i].exc = ""
           /\ singleton.calls[i].ret = singleton.calls[1].ret

\* C12 (amended): the constructor has built at most one object per class and
\* every call that returned handed out that object; a call ends in TypeError,
\* building nothing, exactly when it passes arguments while the class has no
\* instance yet; once the instance exists every call returns it, whatever
\* its arguments.
C12_EveryReturnedCallSameInstance ==
    /\ \A c \in SingletonClasses : singleton.made[c] <= 1
    /\ \A i, j \in 1..Len(singleton.calls) :
           (singleton.calls[i].cls = singleton.calls[j].cls /\ singleton.calls[i].exc = "" /\ singleton.calls[j].exc = "")
           => singleton.calls[i].ret = singleton.calls[j].ret
    /\ \A i \in 1..Len(singleton.calls) :
           /\ singleton.calls[i].exc \in {"", "TypeError"}
           /\ singleton.calls[i].exc = "TypeError" <=>
                 /\ singleton.calls[i].args # << >>
                 /\ \A j \in 1..(i - 1) :
                        singleton.calls[j].cls = singleton.calls[i].cls => singleton.calls[j].exc # ""
           /\ singleton.calls[i].exc = "" =>
                 /\ singleton.calls[i].cls \in DOMAIN singleton.instances
                 /\ singleton.calls[i].ret = singleton.instances[singleton.calls[i].cls]
                 /\ singleton.made[singleton.calls[i].cls] = 1

\* C12 witness: Singleton(1) raised, Singleton() built the instance, and a
\* later Singleton(1, 2) returned that instance.
C12_Witness ==
    /\ Len(singleton.calls) >= 3
    /\ singleton.calls[1].args = <<1>> /\ singleton.calls[1].exc = "TypeError"
    /\ singleton.calls[2].args = << >> /\ singleton.calls[2].exc = ""
    /\ singleton.calls[3].args = <<1, 2>> /\ singleton.calls[3].exc = ""
    /\ singleton.calls[3].ret = singleton.calls[2].ret

\* ======================================================================
\* Flyweight (flyweight.py): Card.__new__ hands out the pooled Card for
\* value + suit and creates one when the pool has none.  The pool is a
\* WeakValueDictionary: an entry goes away when its Card is collected,
\* which happens at some point after the last reference is dropped.
\* ======================================================================

\* Arguments the client passes to Card(value, suit); "9" + "1h" and
\* "91" + "h" are the same pool key.
CardValues == {"9", "91"}
CardSuits == {"h", "1h"}

\* Names of the attributes the client adds to a Card.
AttrNames == {"new_attr"}

\* Number of Card objects created in a run.
MaxCards == 2

\* The module after import: the pool is empty, no Card exists.
\* objects lists the Cards ever created (a Card's id is its position), each
\* with its value, its suit, the attributes added to it and whether the pool
\* was cleared since it was created; refs holds the Cards the client
\* references; after_clear says that no Card(...) call followed the last
\* _pool.clear().
Flyweight_start ==
    [pool |-> [k \in {} |-> 0],
     objects |-> << >>,
     refs |-> {},
     after_clear |-> FALSE,
     last |-> [op |-> "init", value |-> "", suit |-> "", ret |-> 0]]

\* Mutant of Card.__new__: the pool is not consulted, every call creates.
Card_new_nopool(pool, objects, value, suit) ==
    LET key == value \o suit
        id == Len(objects) + 1
    IN  [ret |-> id,
         pool |-> [k \in DOMAIN pool \cup {key} |-> IF k = key THEN id ELSE pool[k]],
         objects |-> Append(objects, [value |-> value, suit |-> suit,
                                      attrs |-> {}, cleared |-> FALSE])]

\* Card.__new__: the Card returned, and the pool and the Cards after the call.
Card_new(pool, objects, value, suit) ==
    LET key == value \o suit
        id == Len(objects) + 1
    IN  IF key \in DOMAIN pool
        THEN [ret |-> pool[key], pool |-> pool, objects |-> objects]
        ELSE [ret |-> id,
              pool |-> [k \in DOMAIN pool \cup {key} |->
                            IF k = key THEN id ELSE pool[k]],
              objects |-> Append(objects, [value |-> value, suit |-> suit,
                                           attrs |-> {}, cleared |-> FALSE])]

\* Mutant of Card._pool.clear(): the pool keeps its entries.
Pool_clear_keeps(pool) == pool

\* Card._pool.clear()
Pool_clear(pool) == [k \in {} |-> 0]

\* c = Card(value, suit) called by the client, who keeps the result or not.
CardCall(value, suit, keep) ==
    /\ (value \o suit \in DOMAIN flyweight.pool
            \/ Len(flyweight.objects) < MaxCards)
    /\ LET r == Card_new(flyweight.pool, flyweight.objects, value, suit)
       IN  flyweight' = [pool |-> r.pool,
                         objects |-> r.objects,
                         refs |-> IF keep THEN flyweight.refs \cup {r.ret}
                                  ELSE flyweight.refs,
                         after_clear |-> FALSE,
                         last |-> [op |-> "Card", value |-> value,
                                   suit |-> suit, ret |-> r.ret]]
    /\ UNCHANGED not_flyweight

\* c.name = 'temp' on a Card the client references.
CardSetAttr(c, name) ==
    /\ c \in flyweight.refs
    /\ flyweight' = [flyweight EXCEPT
                        !.objects[c].attrs = @ \cup {name},
                        !.last = [op |-> "setattr", value |-> "", suit |-> "",
                                  ret |-> c]]
    /\ UNCHANGED not_flyweight

\* The client drops its references to a Card.
CardRelease(c) ==
    /\ c \in flyweight.refs
    /\ flyweight' = [flyweight EXCEPT
                        !.refs = @ \ {c},
                        !.last = [op |-> "del", value |-> "", suit |-> "",
                                  ret |-> c]]
    /\ UNCHANGED not_flyweight

\* A Card nobody references is collected: its pool entry disappears.
CardCollect(c) ==
    /\ c \notin flyweight.refs
    /\ \E k \in DOMAIN flyweight.pool : flyweight.pool[k] = c
    /\ flyweight' = [flyweight EXCEPT
                        !.pool = [k \in {j \in DOMAIN @ : @[j] # c} |-> @[k]],
                        !.last = [op |-> "gc", value |-> "", suit |-> "",
                                  ret |-> c]]
    /\ UNCHANGED not_flyweight

\* Card._pool.clear() called by the client.
CardPoolClear ==
    /\ flyweight' = [flyweight EXCEPT
                        !.pool = Pool_clear(@),
                        !.objects = [i \in 1..Len(@) |-> [@[i] EXCEPT !.cleared = TRUE]],
                        !.after_clear = TRUE,
                        !.last = [op |-> "clear", value |-> "", suit |-> "",
                                  ret |-> 0]]
    /\ UNCHANGED not_flyweight

\* C13 (the claim as stated): a Card(value, suit) call returns the Card that
\* was created for (value, suit) and is still referenced, with the
\* attributes added to it.
C13_ReferencedCardIsReturned ==
    [][flyweight'.last.op = "Card" =>
         \A c \in flyweight.refs :
            (/\ flyweight.objects[c].value = flyweight'.last.value
             /\ flyweight.objects[c].suit = flyweight'.last.suit)
            => /\ flyweight'.last.ret = c
               /\ flyweight'.objects[flyweight'.last.ret].attrs
                     = flyweight.objects[c].attrs]_flyweight

\* C13 (amended): a Card(value, suit) call returns the Card that was created
\* for (value, suit), is still referenced and was created after the last
\* _pool.clear(), with the attributes added to it.
C13_ReferencedPooledCardIsReturned ==
    [][flyweight'.last.op = "Card" =>
         \A c \in flyweight.refs :
            (/\ flyweight.objects[c].value = flyweight'.last.value
             /\ flyweight.objects[c].suit = flyweight'.last.suit
             /\ ~flyweight.objects[c].cleared)
            => /\ flyweight'.last.ret = c
               /\ flyweight'.objects[flyweight'.last.ret].attrs
                     = flyweight.objects[c].attrs]_flyweight

\* C13 witness: Card('9', 'h') has returned the referenced Card created for
\* ('9', 'h'), to which new_attr was added in between.
C13_Witness ==
    /\ flyweight.last.op = "Card"
    /\ flyweight.last.value = "9" /\ flyweight.last.suit = "h"
    /\ flyweight.last.ret \in flyweight.refs
    /\ LET c == flyweight.objects[flyweight.last.ret]
       IN  c.value = "9" /\ c.suit = "h" /\ c.attrs = {"new_attr"} /\ ~c.cleared

\* C14: the first Card(value, suit) call after Card._pool.clear() returns a
\* Card created by that call: it is none of the Cards that existed before (so
\* not the one returned earlier for the same arguments), it has the value and
\* suit asked for and none of the added attributes.
C14_CardAfterClearIsNew ==
    [][(flyweight.after_clear /\ flyweight'.last.op = "Card") =>
         LET new == flyweight'.last.ret
         IN  /\ new \notin 1..Len(flyweight.objects)
             /\ Len(flyweight'.objects) = Len(flyweight.objects) + 1
             /\ flyweight'.objects[new].attrs = {}
             /\ flyweight'.objects[new].value = flyweight'.last.value
             /\ flyweight'.objects[new].suit = flyweight'.last.suit
             /\ \A c \in 1..Len(flyweight.objects) :
                    flyweight'.objects[c].attrs = flyweight.objects[c].attrs]_flyweight

\* C14 witness: after new_attr was added to the Card for ('9', 'h') and the
\* pool was cleared, Card('9', 'h') has returned another Card, without new_attr,
\* while the old one is still referenced.
C14_Witness ==
    /\ flyweight.last.op = "Card"
    /\ flyweight.last.value = "9" /\ flyweight.last.suit = "h"
    /\ Len(flyweight.objects) = 2 /\ flyweight.last.ret = 2
    /\ flyweight.objects[1].value = "9" /\ flyweight.objects[1].suit = "h"
    /\ flyweight.objects[1].attrs = {"new_attr"} /\ flyweight.objects[1].cleared
    /\ 1 \in flyweight.refs
    /\ flyweight.objects[2].attrs = {} /\ ~flyweight.objects[2].cleared

\* ======================================================================
\* Facade (facade.py): ComputerFacade.start() drives the CPU, the Memory
\* and the SolidStateDrive, which a client can also call directly.
\* ======================================================================

\* Arguments a client passes to the subsystems directly.
Positions == {"0x00", "0x10"}
Sectors == {"100", "200"}
Sizes == {"1024"}
Datas == {"boot"}

\* Number of subsystem calls after which the client makes no further direct
\* call.
MaxSteps == 3

\* A computer after ComputerFacade(): no subsystem was called, nothing was
\* printed.  calls lists the subsystem calls made, stdout the lines printed.
Facade_start == [calls |-> << >>, stdout |-> << >>, last |-> "init"]

\* One call of a subsystem method: args are its arguments, ret what it
\* returned.
SubCall(fn, args, ret) == [fn |-> fn, args |-> args, ret |-> ret]

\* CPU.freeze
CPU_freeze(c) ==
    [c EXCEPT !.calls = Append(@, SubCall("CPU.freeze", << >>, NoneValue)),
              !.stdout = Append(@, "Freezing processor.")]

\* CPU.jump
CPU_jump(c, position) ==
    [c EXCEPT !.calls = Append(@, SubCall("CPU.jump", <<position>>, NoneValue)),
              !.stdout = Append(@, "Jumping to: " \o position)]

\* CPU.execute
CPU_execute(c) ==
    [c EXCEPT !.calls = Append(@, SubCall("CPU.execute", << >>, NoneValue)),
              !.stdout = Append(@, "Executing.")]

\* Memory.load
Memory_load(c, position, data) ==
    [c EXCEPT !.calls = Append(@, SubCall("Memory.load", <<position, data>>, NoneValue)),
              !.stdout = Append(@, "Loading from " \o position \o " data: '"
                                      \o data \o "'.")]

\* The string SolidStateDrive.read returns.
SolidStateDrive_data(lba, size) ==
    "Some data from sector " \o lba \o " with size " \o size

\* SolidStateDrive.read
SolidStateDrive_read(c, lba, size) ==
    [c EXCEPT !.calls = Append(@, SubCall("SolidStateDrive.read", <<lba, size>>,
                                          SolidStateDrive_data(lba, size)))]

\* Mutant of ComputerFacade.start: the CPU jumps before the memory is loaded.
ComputerFacade_start_jump_first(c) ==
    LET frozen == CPU_freeze(c)
        jumped == CPU_jump(frozen, "0x00")
        read == SolidStateDrive_read(jumped, "100", "1024")
        loaded == Memory_load(read, "0x00", read.calls[Len(read.calls)].ret)
    IN  CPU_execute(loaded)

\* ComputerFacade.start: the argument of Memory.load is evaluated, so the
\* drive is read, before Memory.load is called.
ComputerFacade_start(c) ==
    LET frozen == CPU_freeze(c)
        read == SolidStateDrive_read(frozen, "100", "1024")
        loaded == Memory_load(read, "0x00", read.calls[Len(read.calls)].ret)
        jumped == CPU_jump(loaded, "0x00")
    IN  CPU_execute(jumped)

\* computer_facade.start()
FacadeStart ==
    /\ Len(facade.calls) <= MaxSteps
    /\ facade' = [ComputerFacade_start(facade) EXCEPT !.last = "start"]
    /\ UNCHANGED not_facade

\* cpu.freeze() called directly.
FacadeFreeze ==
    /\ Len(facade.calls) < MaxSteps
    /\ facade' = [CPU_freeze(facade) EXCEPT !.last = "freeze"]
    /\ UNCHANGED not_facade

\* cpu.jump(position) called directly.
FacadeJump(position) ==
    /\ Len(facade.calls) < MaxSteps
    /\ facade' = [CPU_jump(facade, position) EXCEPT !.last = "jump"]
    /\ UNCHANGED not_facade

\* cpu.execute() called directly.
FacadeExecute ==
    /\ Len(facade.calls) < MaxSteps
    /\ facade' = [CPU_execute(facade) EXCEPT !.last = "execute"]
    /\ UNCHANGED not_facade

\* memory.load(position, data) called directly.
FacadeLoad(position, data) ==
    /\ Len(facade.calls) < MaxSteps
    /\ facade' = [Memory_load(facade, position, data) EXCEPT !.last = "load"]
    /\ UNCHANGED not_facade

\* ssd.read(lba, size) called directly.
FacadeRead(lba, size) ==
    /\ Len(facade.calls) < MaxSteps
    /\ facade' = [SolidStateDrive_read(facade, lba, size) EXCEPT !.last = "read"]
    /\ UNCHANGED not_facade

\* The subsystem calls of one start(), in order.
StartCalls ==
    << SubCall("CPU.freeze", << >>, NoneValue),
       SubCall("SolidStateDrive.read", <<"100", "1024">>,
               "Some data from sector 100 with size 1024"),
       SubCall("Memory.load",
               <<"0x00", "Some data from sector 100 with size 1024">>, NoneValue),
       SubCall("CPU.jump", <<"0x00">>, NoneValue),
       SubCall("CPU.execute", << >>, NoneValue) >>

\* The lines one start() prints.
StartLines ==
    << "Freezing processor.",
       "Loading from 0x00 data: 'Some data from sector 100 with size 1024'.",
       "Jumping to: 0x00",
       "Executing." >>

\* C15: start() makes exactly these subsystem calls, once each and in this
\* order, after whatever was called before: CPU.freeze,
\* SolidStateDrive.read("100", "1024"), Memory.load("0x00", what read
\* returned), CPU.jump("0x00"), CPU.execute; and prints their four lines.
C15_StartStepsInOrder ==
    [][facade'.last = "start" =>
          /\ facade'.calls = facade.calls \o StartCalls
          /\ facade'.stdout = facade.stdout \o StartLines]_facade

\* C15 witness: start() has run after the client called cpu.jump("0x10")
\* itself; the five calls of start() follow that call.
C15_Witness ==
    /\ facade.last = "start"
    /\ Len(facade.calls) = 6
    /\ facade.calls[1] = SubCall("CPU.jump", <<"0x10">>, NoneValue)
    /\ facade.calls[3].fn = "SolidStateDrive.read"
    /\ facade.calls[4].args[2] = facade.calls[3].ret
    /\ facade.stdout[Len(facade.stdout)] = "Executing."

\* ======================================================================
\* Bridge (bridge.py): a Device and the AdvancedRemote that controls it.
\* ======================================================================

\* The channel table: index -> channel.
channels == [i \in {0, 1} |-> IF i = 0 THEN "CBC" ELSE "NBC"]

\* Device.MAX_VOLUME and Device.MIN_VOLUME
MAX_VOLUME == 100
MIN_VOLUME == 0

\* Arguments a client passes to Device.set_volume and Device.set_channel.
\* All volumes met here are whole numbers, so the floats of the code are
\* modelled by integers.
Percents == {0, 1, 25, 99, 100, 120}
ChannelArgs == {"CBC", "NBC", "TSN"}

\* How a call ended: the exception raised ("" for none), the value
\* returned, and the channel the device was on when it was called.
BridgeCall(op, exc, ret, from) == [op |-> op, exc |-> exc, ret |-> ret, from |-> from]

\* Device() and AdvancedRemote(device).  switch remembers which of enable()
\* and disable() was called last.
Bridge_start ==
    [volume_percent |-> 50, channel |-> "CBC", enabled |-> FALSE,
     power |-> FALSE, switch |-> "none",
     last |-> BridgeCall("init", "", NoneValue, "CBC")]

\* Device.enable
Device_enable(d) == [d EXCEPT !.enabled = TRUE]

\* Device.is_enabled
Device_is_enabled(d) == d.enabled

\* Device.disable: returns the bound method self.disable and assigns nothing.
Device_disable(d) == [dev |-> d, ret |-> "<bound method Device.disable>"]

\* Device.get_volume
Device_get_volume(d) == d.volume_percent

\* Device.set_volume
Device_set_volume(d, percent) ==
    IF Device_get_volume(d) < percent /\ percent < MAX_VOLUME
    THEN [d EXCEPT !.volume_percent = percent]
    ELSE IF MIN_VOLUME < percent /\ percent < Device_get_volume(d)
         THEN [d EXCEPT !.volume_percent = percent]
         ELSE d

\* Device.get_channel
Device_get_channel(d) == d.channel

\* Device.set_channel
Device_set_channel(d, new_channel) == [d EXCEPT !.channel = new_channel]

\* Remote.__get_channel_list__: the generator expression is subscripted
\* before it is iterated, which raises TypeError whatever the channel is.
Remote_get_channel_list(d) == Raise("TypeError")

\* channels.get(index)
Channels_get(index) ==
    IF index \in DOMAIN channels THEN channels[index] ELSE NoneValue

\* Remote.channel_down: the exception of __get_channel_list__ propagates.
Remote_channel_down(d) ==
    LET channel_index == Remote_get_channel_list(d)
    IN  IF channel_index.exc # ""
        THEN [dev |-> d, exc |-> channel_index.exc]
        ELSE [dev |-> Device_set_channel(d, Channels_get(channel_index.ret - 1)),
              exc |-> ""]

\* Remote.channel_up
Remote_channel_up(d) ==
    LET channel_index == Remote_get_channel_list(d)
    IN  IF channel_index.exc # ""
        THEN [dev |-> d, exc |-> channel_index.exc]
        ELSE [dev |-> Device_set_channel(d, Channels_get(channel_index.ret + 1)),
              exc |-> ""]

\* Remote.volume_down
Remote_volume_down(d) == Device_set_volume(d, Device_get_volume(d) - 1)

\* Remote.volume_up
Remote_volume_up(d) == Device_set_volume(d, Device_get_volume(d) + 1)

\* AdvancedRemote.mute
AdvancedRemote_mute(d) == Device_set_volume(d, 0)

\* device.enable()
DeviceEnable ==
    /\ bridge' = [Device_enable(bridge) EXCEPT
                     !.switch = "enabled",
                     !.last = BridgeCall("enable", "", NoneValue, bridge.channel)]
    /\ UNCHANGED not_bridge

\* device.disable()
DeviceDisable ==
    /\ LET r == Device_disable(bridge)
       IN  bridge' = [r.dev EXCEPT
                         !.switch = "disabled",
                         !.last = BridgeCall("disable", "", r.ret, bridge.channel)]
    /\ UNCHANGED not_bridge

\* device.is_enabled()
DeviceIsEnabled ==
    /\ bridge' = [bridge EXCEPT
                     !.last = BridgeCall("is_enabled", "", Device_is_enabled(bridge),
                                         bridge.channel)]
    /\ UNCHANGED not_bridge

\* device.get_volume()
DeviceGetVolume ==
    /\ bridge' = [bridge EXCEPT
                     !.last = BridgeCall("get_volume", "", Device_get_volume(bridge),
                                         bridge.channel)]
    /\ UNCHANGED not_bridge

\* device.set_volume(percent)
DeviceSetVolume(percent) ==
    /\ bridge' = [Device_set_volume(bridge, percent) EXCEPT
                     !.last = BridgeCall("set_volume", "", NoneValue, bridge.channel)]
    /\ UNCHANGED not_bridge

\* device.get_channel()
DeviceGetChannel ==
    /\ bridge' = [bridge EXCEPT
                     !.last = BridgeCall("get_channel", "", Device_get_channel(bridge),
                                         bridge.channel)]
    /\ UNCHANGED not_bridge

\* device.set_channel(new_channel)
DeviceSetChannel(new_channel) ==
    /\ bridge' = [Device_set_channel(bridge, new_channel) EXCEPT
                     !.last = BridgeCall("set_channel", "", NoneValue, bridge.channel)]
    /\ UNCHANGED not_bridge

\* remote.toggle_power()
RemoteTogglePower ==
    /\ bridge' = [bridge EXCEPT
                     !.power = ~@,
                     !.last = BridgeCall("toggle_power", "", NoneValue, bridge.channel)]
    /\ UNCHANGED not_bridge

\* remote.volume_down()
RemoteVolumeDown ==
    /\ bridge' = [Remote_volume_down(bridge) EXCEPT
                     !.last = BridgeCall("volume_down", "", NoneValue, bridge.channel)]
    /\ UNCHANGED not_bridge

\* remote.volume_up()
RemoteVolumeUp ==
    /\ bridge' = [Remote_volume_up(bridge) EXCEPT
                     !.last = BridgeCall("volume_up", "", NoneValue, bridge.channel)]
    /\ UNCHANGED not_bridge

\* remote.channel_down()
RemoteChannelDown ==
    /\ LET r == Remote_channel_down(bridge)
       IN  bridge' = [r.dev EXCEPT
                         !.last = BridgeCall("channel_down", r.exc, NoneValue,
                                             bridge.channel)]
    /\ UNCHANGED not_bridge

\* remote.channel_up()
RemoteChannelUp ==
    /\ LET r == Remote_channel_up(bridge)
       IN  bridge' = [r.dev EXCEPT
                         !.last = BridgeCall("channel_up", r.exc, NoneValue,
                                             bridge.channel)]
    /\ UNCHANGED not_bridge

\* remote.mute()
RemoteMute ==
    /\ bridge' = [AdvancedRemote_mute(bridge) EXCEPT
                     !.last = BridgeCall("mute", "", NoneValue, bridge.channel)]
    /\ UNCHANGED not_bridge

\* The channels of the channel table.
TableChannels == {channels[i] : i \in DOMAIN channels}

\* The index of a channel in the channel table.
ChannelIndex(ch) == CHOOSE i \in DOMAIN channels : channels[i] = ch

\* C16 (the claim as stated): after mute(), get_volume() returns 0.
C16_MuteSetsVolumeToZero ==
    bridge.last.op = "mute" => Device_get_volume(bridge) = 0

\* C17 (the claim as stated): is_enabled() returns False when the last of
\* enable() and disable() called was disable(), and True when it was enable().
C17_DisableDisables ==
    bridge.last.op = "is_enabled" =>
        /\ bridge.switch = "disabled" => bridge.last.ret = FALSE
        /\ bridge.switch = "enabled" => bridge.last.ret = TRUE

\* C18 (the claim as stated): channel_up() and channel_down(), called while
\* the device is on a channel of the table, raise no error and leave the
\* device on the entry of the table after, respectively before, that channel.
C18_ChannelUpDownFollowTable ==
    /\ (bridge.last.op = "channel_up" /\ bridge.last.from \in TableChannels) =>
          /\ bridge.last.exc = ""
          /\ bridge.channel = Channels_get(ChannelIndex(bridge.last.from) + 1)
    /\ (bridge.last.op = "channel_down" /\ bridge.last.from \in TableChannels) =>
          /\ bridge.last.exc = ""
          /\ bridge.channel = Channels_get(ChannelIndex(bridge.last.from) - 1)

\* ======================================================================
\* Builder (builder.py): a CarBuilder, the Car it builds and the Director
\* that runs building recipes on it.
\* ======================================================================

\* Arguments a client passes to set_seats, set_engine and set_color; the
\* Director's own arguments are among them.
SeatCounts == {2, 4, 7}
EngineTypes == {"Sport Engine", "Turbo Engine"}
Colors == {"baby blue", "red"}

\* Car.__init__: the attributes a new Car has.  model, seats and engine are
\* only annotated, so a new Car does not have them.
Car_init == [gps |-> FALSE, trip_computer |-> FALSE, color |-> "White"]

\* self.<attr> = value on a Car, whether it has the attribute or not.
SetAttr(car, attr, value) ==
    [a \in DOMAIN car \cup {attr} |-> IF a = attr THEN value ELSE car[a]]

\* CarBuilder(): the builder holds a new Car.  handed_out says that
\* get_product() has returned the Car the builder holds.
Builder_start == [car |-> Car_init, handed_out |-> FALSE, last |-> "init"]

\* Car.reset: returns a new Car and leaves self as it is.
Car_reset(car) == [self |-> car, ret |-> Car_init]

\* Car.set_seats
Car_set_seats(car, num_seats) == SetAttr(car, "seats", num_seats)

\* Car.set_engine
Car_set_engine(car, engine_type) == SetAttr(car, "engine", engine_type)

\* Car.set_trip_computer
Car_set_trip_computer(car) == SetAttr(car, "trip_computer", TRUE)

\* Car.set_gps
Car_set_gps(car) == SetAttr(car, "gps", TRUE)

\* Car.set_color
Car_set_color(car, color) == SetAttr(car, "color", color)

\* CarBuilder.reset: calls self.car.reset() and drops what it returns.
CarBuilder_reset(b) == [b EXCEPT !.car = Car_reset(@).self]

\* CarBuilder.set_seats
CarBuilder_set_seats(b, num_seats) == [b EXCEPT !.car = Car_set_seats(@, num_seats)]

\* CarBuilder.set_engine
CarBuilder_set_engine(b, engine_type) ==
    [b EXCEPT !.car = Car_set_engine(@, engine_type)]

\* CarBuilder.set_trip_computer
CarBuilder_set_trip_computer(b) == [b EXCEPT !.car = Car_set_trip_computer(@)]

\* CarBuilder.set_gps
CarBuilder_set_gps(b) == [b EXCEPT !.car = Car_set_gps(@)]

\* CarBuilder.set_color
CarBuilder_set_color(b, color) == [b EXCEPT !.car = Car_set_color(@, color)]

\* CarBuilder.get_product: returns self.car itself, after self.reset().
CarBuilder_get_product(b) == [CarBuilder_reset(b) EXCEPT !.handed_out = TRUE]

\* Director.construct_sports_car
Director_construct_sports_car(b) ==
    CarBuilder_set_color(
        CarBuilder_set_gps(
            CarBuilder_set_trip_computer(
                CarBuilder_set_engine(
                    CarBuilder_set_seats(CarBuilder_reset(b), 2),
                    "Sport Engine"))),
        "baby blue")

\* Director.construct_suv
Director_construct_suv(b) ==
    CarBuilder_set_gps(
        CarBuilder_set_trip_computer(
            CarBuilder_set_engine(
                CarBuilder_set_seats(CarBuilder_reset(b), 7),
                "Turbo Engine")))

\* builder.reset()
BuilderReset ==
    /\ builder' = [CarBuilder_reset(builder) EXCEPT !.last = "reset"]
    /\ UNCHANGED not_builder

\* builder.set_seats(num_seats)
BuilderSetSeats(num_seats) ==
    /\ builder' = [CarBuilder_set_seats(builder, num_seats) EXCEPT !.last = "set_seats"]
    /\ UNCHANGED not_builder

\* builder.set_engine(engine_type)
BuilderSetEngine(engine_type) ==
    /\ builder' = [CarBuilder_set_engine(builder, engine_type) EXCEPT
                      !.last = "set_engine"]
    /\ UNCHANGED not_builder

\* builder.set_trip_computer()
BuilderSetTripComputer ==
    /\ builder' = [CarBuilder_set_trip_computer(builder) EXCEPT
                      !.last = "set_trip_computer"]
    /\ UNCHANGED not_builder

\* builder.set_gps()
BuilderSetGps ==
    /\ builder' = [CarBuilder_set_gps(builder) EXCEPT !.last = "set_gps"]
    /\ UNCHANGED not_builder

\* builder.set_color(color)
BuilderSetColor(color) ==
    /\ builder' = [CarBuilder_set_color(builder, color) EXCEPT !.last = "set_color"]
    /\ UNCHANGED not_builder

\* builder.get_product()
BuilderGetProduct ==
    /\ builder' = [CarBuilder_get_product(builder) EXCEPT !.last = "get_product"]
    /\ UNCHANGED not_builder

\* director.construct_sports_car(builder)
DirectorConstructSportsCar ==
    /\ builder' = [Director_construct_sports_car(builder) EXCEPT
                      !.last = "construct_sports_car"]
    /\ UNCHANGED not_builder

\* director.construct_suv(builder)
DirectorConstructSuv ==
    /\ builder' = [Director_construct_suv(builder) EXCEPT !.last = "construct_suv"]
    /\ UNCHANGED not_builder

\* C19 (the claim as stated): after reset() the builder's car has the default
\* configuration: gps False, trip_computer False, color "White", no seats and
\* no engine.
C19_ResetClearsCar ==
    builder.last = "reset" =>
        /\ DOMAIN builder.car = {"gps", "trip_computer", "color"}
        /\ builder.car["gps"] = FALSE
        /\ builder.car["trip_computer"] = FALSE
        /\ builder.car["color"] = "White"

\* ======================================================================
\* Abstract Factory (abstract_factory.py): the class statements of the
\* module, run in order, and a client that instantiates the classes the
\* module defined and calls their methods.
\* ======================================================================

\* Names defined before the first class statement.
Builtins == {"ABC", "bool"}

\* An @abstractmethod def: name, whether it has a self parameter, its return
\* annotation, what its body does ("True", "False", the class it
\* instantiates, or the exception it raises).
AbstractDef(name, ann) ==
    [name |-> name, self |-> TRUE, ann |-> ann, abstract |-> TRUE,
     body |-> "NotImplementedError"]

\* A def of a concrete class.
Def(name, self, ann, body) ==
    [name |-> name, self |-> self, ann |-> ann, abstract |-> FALSE, body |-> body]

\* A class statement: class name(base): defs
ClassStmt(name, base, defs) == [name |-> name, base |-> base, defs |-> defs]

\* class Chair(ABC), CoffeeTable(ABC), Sofa(ABC)
AbstractProduct(name) ==
    ClassStmt(name, "ABC", << AbstractDef("has_legs", "bool"),
                              AbstractDef("sit_on", "bool"),
                              AbstractDef("can_purchase", "bool") >>)

\* A concrete product class: has_legs returns True, sit_on and can_purchase
\* return what the class says; purchase_self is FALSE where can_purchase is
\* declared without self.
Product(name, base, sit_on, purchase_self, can_purchase) ==
    ClassStmt(name, base, << Def("has_legs", TRUE, "bool", "True"),
                             Def("sit_on", TRUE, "bool", sit_on),
                             Def("can_purchase", purchase_self, "bool", can_purchase) >>)

\* A concrete factory class: create_chair and create_sofa take self,
\* create_coffee_table is declared without parameters; each is annotated
\* with, and instantiates, the class named.
ConcreteFactory(name, chair, sofa, table) ==
    ClassStmt(name, "FurnitureFactory",
              << Def("create_chair", TRUE, chair, chair),
                 Def("create_sofa", TRUE, sofa, sofa),
                 Def("create_coffee_table", FALSE, table, table) >>)

\* The class statements of the module, in source order.
Module ==
    << AbstractProduct("Chair"),
       AbstractProduct("CoffeeTable"),
       AbstractProduct("Sofa"),
       Product("ModernChair", "Chair", "True", TRUE, "True"),
       Product("VictorianChair", "Chair", "True", TRUE, "True"),
       Product("ArtDecoChair", "Chair", "True", FALSE, "False"),
       Product("ModernSofa", "Sofa", "True", TRUE, "True"),
       Product("VictorianSofa", "Sofa", "True", TRUE, "True"),
       Product("ArtDecoSofa", "Sofa", "True", TRUE, "False"),
       Product("ModernCoffeeTable", "CoffeeTable", "False", TRUE, "True"),
       Product("VictorianCoffeeTable", "CoffeeTable", "False", TRUE, "True"),
       Product("ArtDecoTable", "CoffeeTable", "False", TRUE, "False"),
       ClassStmt("FurnitureFactory", "ABC",
                 << AbstractDef("create_chair", "Chair"),
                    AbstractDef("create_sofa", "Sofa"),
                    AbstractDef("create_coffee_table", "CoffeeTable") >>),
       ConcreteFactory("ModernFurnitureFactory", "ModernChair", "ModernSofa",
                       "ModernCoffeeTable"),
       ConcreteFactory("VictorianFurnitureFactory", "VictorianChair",
                       "VictorianSofa", "VictorianCoffeeTable"),
       ConcreteFactory("ArtDecoFurnitureFactory", "ArtDecoChair", "ArtDecoSofa",
                       "ArtDecoCoffeeTable") >>

\* The names a client uses: the classes the module means to define.
ClassNames == {Module[i].name : i \in 1..Len(Module)}
MethodNames ==
    {"has_legs", "sit_on", "can_purchase",
     "create_chair", "create_sofa", "create_coffee_table"}

\* Number of classes the client holds an instance of.
MaxObjects == 2

\* The names a class statement evaluates when it runs: its base and the
\* return annotations of its defs (the bodies are not run).
NamesEvaluated(c) == {c.base} \cup {c.defs[i].ann : i \in 1..Len(c.defs)}

\* Running the class statements from the i-th on with the names ns defined:
\* the first statement that evaluates an undefined name raises NameError and
\* ends the run; the classes bound before it stay bound.
RECURSIVE ExecModule(_, _)
ExecModule(ns, i) ==
    IF i > Len(Module)
    THEN [namespace |-> ns, exc |-> ""]
    ELSE IF NamesEvaluated(Module[i]) \subseteq ns
         THEN ExecModule(ns \cup {Module[i].name}, i + 1)
         ELSE [namespace |-> ns, exc |-> "NameError"]

\* The class statement that defines cls.
ClassOf(cls) == Module[CHOOSE i \in 1..Len(Module) : Module[i].name = cls]

\* The def a method name resolves to on an instance of cls: the class's own
\* def, else its base's.
RECURSIVE Lookup(_, _)
Lookup(cls, method) ==
    LET c == ClassOf(cls)
        own == {i \in 1..Len(c.defs) : c.defs[i].name = method}
    IN  IF own # {} THEN c.defs[CHOOSE i \in own : TRUE]
        ELSE IF c.base \in ClassNames THEN Lookup(c.base, method)
        ELSE [name |-> method, self |-> TRUE, ann |-> "", abstract |-> FALSE,
              body |-> "AttributeError"]

\* The abstract methods a class is left with (ABCMeta).
AbstractMethods(cls) == {m \in MethodNames : Lookup(cls, m).abstract}

\* cls(): NameError when the name is not bound, TypeError when the class has
\* abstract methods, else a new instance.
Instantiate(ns, cls) ==
    IF cls \notin ns THEN Raise("NameError")
    ELSE IF AbstractMethods(cls) # {} THEN Raise("TypeError")
    ELSE Return(cls)

\* obj.method() on an instance of cls: the instance is passed as the first
\* argument, so a def without parameters raises TypeError; else the body
\* runs.  The result is "True", "False" or the class of the object created.
CallMethod(ns, cls, method) ==
    LET d == Lookup(cls, method)
    IN  IF d.body = "AttributeError" THEN Raise("AttributeError")
        ELSE IF ~d.self THEN Raise("TypeError")
        ELSE IF d.body \in {"True", "False"} THEN Return(d.body)
        ELSE IF d.body = "NotImplementedError" THEN Raise(d.body)
        ELSE Instantiate(ns, d.body)

\* How a client call ended.
FactoryCall(op, cls, method, outcome) ==
    [op |-> op, cls |-> cls, method |-> method, exc |-> outcome.exc,
     ret |-> outcome.ret]

\* Before the module runs.  objects holds the classes the client has an
\* instance of.
Factory_start ==
    [loaded |-> FALSE, namespace |-> Builtins, exc |-> "", objects |-> {},
     last |-> FactoryCall("init", "", "", Return(NoneValue))]

\* The objects the client holds after a call that may have returned one.
Holding(objects, outcome) ==
    IF outcome.exc = "" /\ outcome.ret \in ClassNames
    THEN objects \cup {outcome.ret} ELSE objects

\* The module is run (as a script or by exec into a namespace the client goes
\* on using).
FactoryLoad ==
    /\ ~factory.loaded
    /\ LET r == ExecModule(Builtins, 1)
       IN  factory' = [factory EXCEPT
                          !.loaded = TRUE, !.namespace = r.namespace, !.exc = r.exc,
                          !.last = FactoryCall("load", "", "", [exc |-> r.exc, ret |-> NoneValue])]
    /\ UNCHANGED not_factory

\* obj = cls() called by the client.
FactoryInstantiate(cls) ==
    /\ factory.loaded
    /\ LET r == Instantiate(factory.namespace, cls)
       IN  /\ Cardinality(Holding(factory.objects, r)) <= MaxObjects
           /\ factory' = [factory EXCEPT
                             !.objects = Holding(@, r),
                             !.last = FactoryCall("new", cls, "", r)]
    /\ UNCHANGED not_factory

\* obj.method() called by the client on an instance of cls it holds.
FactoryCallMethod(cls, method) ==
    /\ cls \in factory.objects
    /\ LET r == CallMethod(factory.namespace, cls, method)
       IN  /\ Cardinality(Holding(factory.objects, r)) <= MaxObjects
           /\ factory' = [factory EXCEPT
                             !.objects = Holding(@, r),
                             !.last = FactoryCall("call", cls, method, r)]
    /\ UNCHANGED not_factory

\* The concrete factories and, for each, the classes of its variant.
Variants == {"Modern", "Victorian", "ArtDeco"}
ConcreteFactories == {v \o "FurnitureFactory" : v \in Variants}
VariantClasses(v) ==
    {v \o k : k \in {"Chair", "Sofa", "CoffeeTable", "Table", "FurnitureFactory"}}
VariantOf(cls) == CHOOSE v \in Variants : cls \in VariantClasses(v)

\* The abstract product each creation method promises.
ProductOf(method) ==
    CASE method = "create_chair" -> "Chair"
      [] method = "create_sofa" -> "Sofa"
      [] method = "create_coffee_table" -> "CoffeeTable"

\* C20 (the claim as stated): each of the three concrete factories can be
\* instantiated, and create_chair, create_sofa and create_coffee_table called
\* on the instance return, without error, a product of the kind asked for
\* and of the factory's variant.
C20_FactoriesCreateOwnVariant ==
    /\ (factory.last.op = "new" /\ factory.last.cls \in ConcreteFactories)
          => factory.last.exc = ""
    /\ (/\ factory.last.op = "call"
        /\ factory.last.cls \in ConcreteFactories
        /\ factory.last.method \in {"create_chair", "create_sofa", "create_coffee_table"})
          => /\ factory.last.exc = ""
             /\ factory.last.ret \in VariantClasses(VariantOf(factory.last.cls))
             /\ ClassOf(factory.last.ret).base = ProductOf(factory.last.method)

\* ======================================================================
\* Specifications: each file is a program of its own; the objects of the
\* other files stay as they are after import.
\* ======================================================================
Composite_start ==
    [files |-> [f \in FileIds |-> File_init("a.txt", "hi")],
     children |-> [f \in FolderIds |-> Folder_init],
     last |-> [op |-> "init", node |-> "", arg |-> "",
               exc |-> "", ret |-> NoneValue, again |-> FALSE]]

\* composite.py
Init ==
    /\ files \in [FileIds -> {File_init(a[1], a[2]) : a \in FileArgs}]
    /\ children = [f \in FolderIds |-> Folder_init]
    /\ last = [op |-> "init", node |-> "", arg |-> "",
               exc |-> "", ret |-> NoneValue, again |-> FALSE]
    /\ before = children
    /\ singleton = Singleton_start
    /\ flyweight = Flyweight_start
    /\ facade = Facade_start
    /\ bridge = Bridge_start
    /\ builder = Builder_start
    /\ factory = Factory_start

Next ==
    \/ \E self \in FolderIds, file \in FileIds : AddFile(self, file)
    \/ \E self \in FolderIds, folder \in FolderIds : AddFolder(self, folder)
    \/ \E self \in FolderIds, file \in FileIds : RemoveFile(self, file)
    \/ \E self \in FolderIds, folder \in FolderIds : RemoveFolder(self, folder)
    \/ \E node \in NodeIds : Evaluate(node)

Spec == Init /\ [][Next]_<<vars, not_composite>>

\* singleton.py
SingletonInit ==
    /\ singleton = Singleton_start
    /\ files = Composite_start.files
    /\ children = Composite_start.children
    /\ last = Composite_start.last
    /\ before = Composite_start.children
    /\ flyweight = Flyweight_start
    /\ facade = Facade_start
    /\ bridge = Bridge_start
    /\ builder = Builder_start
    /\ factory = Factory_start

SingletonNext ==
    \E cls \in SingletonClasses, args \in ArgLists : SingletonCall(cls, args)

SingletonSpec == SingletonInit /\ [][SingletonNext]_<<singleton, not_singleton>>

\* flyweight.py
FlyweightInit ==
    /\ flyweight = Flyweight_start
    /\ files = Composite_start.files
    /\ children = Composite_start.children
    /\ last = Composite_start.last
    /\ before = Composite_start.children
    /\ singleton = Singleton_start
    /\ facade = Facade_start
    /\ bridge = Bridge_start
    /\ builder = Builder_start
    /\ factory = Factory_start

FlyweightNext ==
    \/ \E value \in CardValues, suit \in CardSuits, keep \in BOOLEAN :
          CardCall(value, suit, keep)
    \/ \E c \in 1..MaxCards, name \in AttrNames : CardSetAttr(c, name)
    \/ \E c \in 1..MaxCards : CardRelease(c)
    \/ \E c \in 1..MaxCards : CardCollect(c)
    \/ CardPoolClear

FlyweightSpec == FlyweightInit /\ [][FlyweightNext]_<<flyweight, not_flyweight>>

\* facade.py
FacadeInit ==
    /\ facade = Facade_start
    /\ files = Composite_start.files
    /\ children = Composite_start.children
    /\ last = Composite_start.last
    /\ before = Composite_start.children
    /\ singleton = Singleton_start
    /\ flyweight = Flyweight_start
    /\ bridge = Bridge_start
    /\ builder = Builder_start
    /\ factory = Factory_start

FacadeNext ==
    \/ FacadeStart
    \/ FacadeFreeze
    \/ \E position \in Positions : FacadeJump(position)
    \/ FacadeExecute
    \/ \E position \in Positions, data \in Datas : FacadeLoad(position, data)
    \/ \E lba \in Sectors, size \in Sizes : FacadeRead(lba, size)

FacadeSpec == FacadeInit /\ [][FacadeNext]_<<facade, not_facade>>

\* bridge.py
BridgeInit ==
    /\ bridge = Bridge_start
    /\ files = Composite_start.files
    /\ children = Composite_start.children
    /\ last = Composite_start.last
    /\ before = Composite_start.children
    /\ singleton = Singleton_start
    /\ flyweight = Flyweight_start
    /\ facade = Facade_start
    /\ builder = Builder_start
    /\ factory = Factory_start

BridgeNext ==
    \/ DeviceEnable
    \/ DeviceDisable
    \/ DeviceIsEnabled
    \/ DeviceGetVolume
    \/ \E percent \in Percents : DeviceSetVolume(percent)
    \/ DeviceGetChannel
    \/ \E new_channel \in ChannelArgs : DeviceSetChannel(new_channel)
    \/ RemoteTogglePower
    \/ RemoteVolumeDown
    \/ RemoteVolumeUp
    \/ RemoteChannelDown
    \/ RemoteChannelUp
    \/ RemoteMute

BridgeSpec == BridgeInit /\ [][BridgeNext]_<<bridge, not_bridge>>

\* builder.py
BuilderInit ==
    /\ builder = Builder_start
    /\ files = Composite_start.files
    /\ children = Composite_start.children
    /\ last = Composite_start.last
    /\ before = Composite_start.children
    /\ singleton = Singleton_start
    /\ flyweight = Flyweight_start
    /\ facade = Facade_start
    /\ bridge = Bridge_start
    /\ factory = Factory_start

BuilderNext ==
    \/ BuilderReset
    \/ \E num_seats \in SeatCounts : BuilderSetSeats(num_seats)
    \/ \E engine_type \in EngineTypes : BuilderSetEngine(engine_type)
    \/ BuilderSetTripComputer
    \/ BuilderSetGps
    \/ \E color \in Colors : BuilderSetColor(color)
    \/ BuilderGetProduct
    \/ DirectorConstructSportsCar
    \/ DirectorConstructSuv

BuilderSpec == BuilderInit /\ [][BuilderNext]_<<builder, not_builder>>

\* abstract_factory.py
FactoryInit ==
    /\ factory = Factory_start
    /\ files = Composite_start.files
    /\ children = Composite_start.children
    /\ last = Composite_start.last
    /\ before = Composite_start.children
    /\ singleton = Singleton_start
    /\ flyweight = Flyweight_start
    /\ facade = Facade_start
    /\ bridge = Bridge_start
    /\ builder = Builder_start

FactoryNext ==
    \/ FactoryLoad
    \/ \E cls \in ClassNames : FactoryInstantiate(cls)
    \/ \E cls \in ClassNames, method \in MethodNames :
          FactoryCallMethod(cls, method)

FactorySpec == FactoryInit /\ [][FactoryNext]_<<factory, not_factory>>

====
